---- MODULE Spec2Model ----
(***************************************************************************)
(* Model of loopers' process bootstrap (src/loopers/src/main.rs): command  *)
(* line configuration, logger setup, construction of the command channel  *)
(* (gui -> engine) and of the GuiSender (engine -> gui), decoding of the   *)
(* two bundled metronome sounds and the dispatch into one audio backend.   *)
(* After the dispatch the two execution contexts that use the channels     *)
(* (the Gui and the backend's realtime side) are modelled as interleaved   *)
(* steps on the channels main() built.                                     *)
(***************************************************************************)
EXTENDS Integers, Sequences, FiniteSets, TLC

VARIABLES
    cli,            \* struct Cli after Cli::parse()
    target_os,      \* the platform the binary was built for
    assets,         \* the bytes behind SINE_NORMAL / SINE_EMPHASIS
    env,            \* what setup_logger meets: log file opens, logger free
    pc,             \* position of main()
    logger,         \* result of setup_logger: "unset", "Ok", "Io", "SetLogger"
    logSinks,       \* sinks of the applied logger
    stderr,         \* lines written with eprintln!
    logged,         \* records emitted with info!
    nControlChannels, \* calls of bounded(100) so far
    nUpdateChannels,  \* GuiSender::new() / GuiSender::disconnected() calls
    nGuis,            \* Gui::new calls
    gui,            \* the Option<Gui> bound at line 85
    gui_sender,     \* variant of the GuiSender bound at line 85
    beat_normal,    \* Vec<f32> of line 97, or Undecoded / Failed
    beat_emphasis,  \* Vec<f32> of line 100, or Undecoded / Failed
    invoked,        \* the backend entry points called, with their arguments
    owner,          \* who holds each channel half and the Gui
    exitStatus,     \* process exit status, NoStatus while running
    exitCause,      \* why the process ended
    ctrlQueue,      \* commands in flight on the bounded(100) channel
    attempts,       \* command sends started by the Gui
    pending,        \* the command of a send blocked on the full channel, 0 if none
    sentLog,        \* commands whose send completed, in completion order
    sendFailures,   \* sends that returned an explicit error (channel full)
    received,       \* commands the backend took, in order
    pollResult,     \* outcome of the backend's last try_recv
    updQueue,       \* updates in flight on the connected GuiSender
    updSent,        \* GuiSender sends the backend made
    updSeen,        \* updates the Gui took
    budget          \* exploration budget: command sends and update sends

vars == <<cli, target_os, assets, env, pc, logger, logSinks, stderr, logged,
          nControlChannels, nUpdateChannels, nGuis, gui, gui_sender,
          beat_normal, beat_emphasis, invoked, owner, exitStatus, exitCause,
          ctrlQueue, attempts, pending, sentLog, sendFailures, received,
          pollResult, updQueue, updSent, updSeen, budget>>

inputVars == <<cli, target_os, assets, env, budget>>
logVars   == <<logger, logSinks, stderr, logged>>
buildVars == <<nControlChannels, nUpdateChannels, nGuis, gui, gui_sender, owner>>
beatVars  == <<beat_normal, beat_emphasis>>
exitVars  == <<exitStatus, exitCause>>
ctrlVars  == <<ctrlQueue, attempts, pending, sentLog, sendFailures, received,
               pollResult>>
updVars   == <<updQueue, updSent, updSeen>>

-----------------------------------------------------------------------------
(* Bounds of the exploration *)

\* command sends explored in the full-configuration specification
MaxSends == 2
\* command sends explored in the backpressure specification (past the capacity)
MaxBurst == 102
\* GuiSender sends explored
MaxUpdates == 2
\* GuiSender sends explored in the backpressure specification
BurstUpdates == 1

-----------------------------------------------------------------------------
(* Program constants *)

\* a channel built one slot too large
ControlCapacity_OffByOne == 100 + 1

\* bounded(100)
ControlCapacity == 100

\* a rejection that exits with the success status
ExitFailure_Zero == 1 - 1

\* std::process::exit(1)
ExitFailure == 1

\* exit status of a process whose main thread panicked
PanicStatus == 101

\* exit status when main returns
ExitSuccess == 0

NoStatus == -1

None == "None"
Undecoded == "Undecoded"
Failed == "Failed"

\* DEFAULT_DRIVER, by target_os
DEFAULT_DRIVER(os) == IF os = "macos" THEN "coreaudio" ELSE "jack"

\* values of --driver explored: the two known names, an unknown one, a
\* known one in another case
DriverArgs == {"jack", "coreaudio", "nonexistent", "Jack"}

\* the bundled wav files explored: a well-formed one, one with a malformed
\* header, one whose data chunk is shorter than the header declares
WavOk(samples) == [headerOk |-> TRUE, declared |-> Len(samples), data |-> samples]
WavMalformed == [headerOk |-> FALSE, declared |-> 0, data |-> <<>>]
WavTruncated(samples) ==
    [headerOk |-> TRUE, declared |-> Len(samples) + 1, data |-> samples]

SINE_NORMAL == {WavOk(<<1, 2>>), WavMalformed, WavTruncated(<<1>>)}
SINE_EMPHASIS == {WavOk(<<3, 4, 5>>), WavMalformed, WavTruncated(<<3>>)}

\* hound::WavReader::new(bytes).unwrap() followed by
\* into_samples().map(|x| x.unwrap()).collect(): every declared sample in
\* order, a panic on a bad header or on a sample that is not there
DecodeWav(wav) ==
    IF ~wav.headerOk THEN Failed
    ELSE IF Len(wav.data) < wav.declared THEN Failed
    ELSE SubSeq(wav.data, 1, wav.declared)

-----------------------------------------------------------------------------
(* Initial states: the process right after Cli::parse() *)

Cli ==
    [restore : BOOLEAN, no_gui : BOOLEAN, driver : DriverArgs,
     debug : BOOLEAN, log_path : {"", "loopers.log"}]

NoOwners ==
    [gui_to_engine_sender |-> None, gui_to_engine_receiver |-> None,
     sender |-> None, sender_clone |-> None, receiver |-> None, gui |-> None]

InitRest ==
    /\ pc = "setup_logger"
    /\ logger = "unset"
    /\ logSinks = {}
    /\ stderr = <<>>
    /\ logged = <<>>
    /\ nControlChannels = 0
    /\ nUpdateChannels = 0
    /\ nGuis = 0
    /\ gui = "unbound"
    /\ gui_sender = "unbound"
    /\ beat_normal = Undecoded
    /\ beat_emphasis = Undecoded
    /\ invoked = <<>>
    /\ owner = NoOwners
    /\ exitStatus = NoStatus
    /\ exitCause = None
    /\ ctrlQueue = <<>>
    /\ attempts = 0
    /\ pending = 0
    /\ sentLog = <<>>
    /\ sendFailures = 0
    /\ received = <<>>
    /\ pollResult = None
    /\ updQueue = <<>>
    /\ updSent = 0
    /\ updSeen = 0

\* every command line, platform, pair of bundled files and logger
\* environment explored, with a few channel operations after the dispatch
InitWide ==
    /\ target_os \in {"macos", "linux"}
    /\ cli \in Cli
    /\ cli.driver \in DriverArgs \cup {DEFAULT_DRIVER(target_os)}
    /\ assets \in [normal : SINE_NORMAL, emphasis : SINE_EMPHASIS]
    /\ env \in [logFileOpens : BOOLEAN, loggerFree : BOOLEAN]
    /\ (cli.log_path = "" => env.logFileOpens)
    /\ budget = [sends |-> MaxSends, updates |-> MaxUpdates]
    /\ InitRest

\* the default command line (lines 43-70) with well-formed bundled files,
\* the Gui sending past the command channel's capacity
InitBurst ==
    /\ target_os \in {"macos", "linux"}
    /\ cli = [restore |-> FALSE, no_gui |-> FALSE,
              driver |-> DEFAULT_DRIVER(target_os), debug |-> FALSE,
              log_path |-> ""]
    /\ assets = [normal |-> WavOk(<<1, 2>>), emphasis |-> WavOk(<<3, 4, 5>>)]
    /\ env = [logFileOpens |-> TRUE, loggerFree |-> TRUE]
    /\ budget = [sends |-> MaxBurst, updates |-> BurstUpdates]
    /\ InitRest

Init == InitWide \/ InitBurst

-----------------------------------------------------------------------------
(* main(), lines 73-135 *)

\* the process ends: exit(status), a panic, or main returning
Exit(status, cause) ==
    /\ pc' = "exited"
    /\ exitStatus' = status
    /\ exitCause' = cause

\* setup_logger(debug, path): Err(Io) when the log file cannot be opened,
\* Err(SetLogger) when apply() finds a logger installed, Ok otherwise
setup_logger(debug, path) ==
    IF path # "" /\ ~env.logFileOpens THEN [result |-> "Io", sinks |-> {}]
    ELSE IF ~env.loggerFree THEN [result |-> "SetLogger", sinks |-> {}]
    ELSE [result |-> "Ok",
          sinks |-> {<<"stdout", IF debug THEN "Debug" ELSE "Info">>}
                    \cup (IF path # ""
                          THEN {<<"file", IF debug THEN "Debug" ELSE "Info">>}
                          ELSE {})]

\* a logger error that ends the process (setup_logger(..).unwrap())
SetupLogger_Fatal ==
    /\ pc = "setup_logger"
    /\ LET r == setup_logger(cli.debug, cli.log_path) IN
        /\ logger' = r.result
        /\ logSinks' = r.sinks
        /\ stderr' = stderr
        /\ IF r.result = "Ok"
           THEN pc' = "restore_info" /\ UNCHANGED exitVars
           ELSE Exit(PanicStatus, "logger")
    /\ UNCHANGED <<inputVars, logged, buildVars, beatVars, invoked,
                   ctrlVars, updVars>>

\* lines 75-77: a failure is printed and main goes on
SetupLogger ==
    /\ pc = "setup_logger"
    /\ LET r == setup_logger(cli.debug, cli.log_path) IN
        /\ logger' = r.result
        /\ logSinks' = r.sinks
        /\ stderr' = IF r.result = "Ok" THEN stderr
                     ELSE Append(stderr, <<"Unable to set up logging", r.result>>)
    /\ pc' = "restore_info"
    /\ UNCHANGED <<inputVars, logged, buildVars, beatVars, invoked, exitVars,
                   ctrlVars, updVars>>

\* lines 79-81
RestoreInfo ==
    /\ pc = "restore_info"
    /\ logged' = IF cli.restore /\ logger = "Ok"
                 THEN Append(logged, "Restoring previous session")
                 ELSE logged
    /\ pc' = "control_channel"
    /\ UNCHANGED <<inputVars, logger, logSinks, stderr, buildVars, beatVars,
                   invoked, exitVars, ctrlVars, updVars>>

\* line 83: let (gui_to_engine_sender, gui_to_engine_receiver) = bounded(100)
ConstructControlChannel ==
    /\ pc = "control_channel"
    /\ nControlChannels' = nControlChannels + 1
    /\ ctrlQueue' = <<>>
    /\ owner' = [owner EXCEPT !.gui_to_engine_sender = "main",
                              !.gui_to_engine_receiver = "main"]
    /\ pc' = "update_channel"
    /\ UNCHANGED <<inputVars, logVars, nUpdateChannels, nGuis, gui, gui_sender,
                   beatVars, invoked, exitVars, attempts, pending, sentLog,
                   sendFailures, received, pollResult, updVars>>

\* the two variants taken the wrong way round
UpdateVariant_Inverted(no_gui) == IF no_gui THEN "connected" ELSE "disconnected"

\* the GuiSender variant main() picks at lines 85-93
UpdateVariant(no_gui) == IF ~no_gui THEN "connected" ELSE "disconnected"

\* a headless run that keeps the sending half of a fresh GuiSender::new()
\* instead of GuiSender::disconnected()
ConstructUpdateChannel_HeadlessConnected ==
    /\ pc = "update_channel"
    /\ nUpdateChannels' = nUpdateChannels + 1
    /\ IF ~cli.no_gui
       THEN /\ owner' = [owner EXCEPT !.sender = "main", !.receiver = "main"]
            /\ gui_sender' = gui_sender
            /\ gui' = gui
            /\ pc' = "gui_new"
       ELSE /\ owner' = [owner EXCEPT !.sender = "main"]
            /\ gui_sender' = "connected"
            /\ gui' = None
            /\ pc' = "decode_normal"
    /\ UNCHANGED <<inputVars, logVars, nControlChannels, nGuis, beatVars,
                   invoked, exitVars, ctrlVars, updVars>>

\* a headless run that drops the unused command sender at once
ConstructUpdateChannel_DropsSender ==
    /\ pc = "update_channel"
    /\ nUpdateChannels' = nUpdateChannels + 1
    /\ IF UpdateVariant(cli.no_gui) = "connected"
       THEN /\ owner' = [owner EXCEPT !.sender = "main", !.receiver = "main"]
            /\ gui_sender' = gui_sender
            /\ gui' = gui
            /\ pc' = "gui_new"
       ELSE /\ owner' = [owner EXCEPT !.sender = "main",
                                      !.gui_to_engine_sender = None]
            /\ gui_sender' = "disconnected"
            /\ gui' = None
            /\ pc' = "decode_normal"
    /\ UNCHANGED <<inputVars, logVars, nControlChannels, nGuis, beatVars,
                   invoked, exitVars, ctrlVars, updVars>>

\* line 86 (GuiSender::new()) or line 92 (GuiSender::disconnected(), which
\* also binds gui = None)
ConstructUpdateChannel ==
    /\ pc = "update_channel"
    /\ nUpdateChannels' = nUpdateChannels + 1
    /\ IF UpdateVariant(cli.no_gui) = "connected"
       THEN /\ owner' = [owner EXCEPT !.sender = "main", !.receiver = "main"]
            /\ gui_sender' = gui_sender
            /\ gui' = gui
            /\ pc' = "gui_new"
       ELSE /\ owner' = [owner EXCEPT !.sender = "main"]
            /\ gui_sender' = "disconnected"
            /\ gui' = None
            /\ pc' = "decode_normal"
    /\ UNCHANGED <<inputVars, logVars, nControlChannels, nGuis, beatVars,
                   invoked, exitVars, ctrlVars, updVars>>

\* a Gui that is given a GuiSender of its own instead of sender.clone()
ConstructGui_OwnChannel ==
    /\ pc = "gui_new"
    /\ nGuis' = nGuis + 1
    /\ nUpdateChannels' = nUpdateChannels + 1
    /\ gui' = "Some"
    /\ gui_sender' = "connected"
    /\ owner' = [owner EXCEPT !.receiver = "gui",
                              !.gui_to_engine_sender = "gui",
                              !.sender_clone = "gui",
                              !.gui = "main"]
    /\ pc' = "decode_normal"
    /\ UNCHANGED <<inputVars, logVars, nControlChannels, beatVars, invoked,
                   exitVars, ctrlVars, updVars>>

\* lines 87-90: Some(Gui::new(receiver, gui_to_engine_sender, sender.clone())),
\* and the binding of (gui, gui_sender)
ConstructGui ==
    /\ pc = "gui_new"
    /\ nGuis' = nGuis + 1
    /\ gui' = "Some"
    /\ gui_sender' = "connected"
    /\ owner' = [owner EXCEPT !.receiver = "gui",
                              !.gui_to_engine_sender = "gui",
                              !.sender_clone = "gui",
                              !.gui = "main"]
    /\ pc' = "decode_normal"
    /\ UNCHANGED <<inputVars, logVars, nControlChannels, nUpdateChannels,
                   beatVars, invoked, exitVars, ctrlVars, updVars>>

\* the normal click left undecoded at startup (decoded on first use)
DecodeNormal_Deferred ==
    /\ pc = "decode_normal"
    /\ pc' = "decode_emphasis"
    /\ UNCHANGED <<inputVars, logVars, buildVars, beatVars, invoked, exitVars,
                   ctrlVars, updVars>>

\* a decode of the normal click whose error is swallowed instead of unwrapped
DecodeNormal_Continue ==
    /\ pc = "decode_normal"
    /\ beat_normal' = DecodeWav(assets.normal)
    /\ pc' = "decode_emphasis"
    /\ UNCHANGED <<inputVars, logVars, buildVars, beat_emphasis, invoked,
                   exitVars, ctrlVars, updVars>>

\* lines 96-97
DecodeNormal ==
    /\ pc = "decode_normal"
    /\ beat_normal' = DecodeWav(assets.normal)
    /\ IF beat_normal' = Failed
       THEN Exit(PanicStatus, "asset_decode")
       ELSE pc' = "decode_emphasis" /\ UNCHANGED exitVars
    /\ UNCHANGED <<inputVars, logVars, buildVars, beat_emphasis, invoked,
                   ctrlVars, updVars>>

\* a decode error that is swallowed instead of unwrapped
DecodeEmphasis_Continue ==
    /\ pc = "decode_emphasis"
    /\ beat_emphasis' = DecodeWav(assets.emphasis)
    /\ pc' = "match_driver"
    /\ UNCHANGED <<inputVars, logVars, buildVars, beat_normal, invoked,
                   exitVars, ctrlVars, updVars>>

\* lines 99-100
DecodeEmphasis ==
    /\ pc = "decode_emphasis"
    /\ beat_emphasis' = DecodeWav(assets.emphasis)
    /\ IF beat_emphasis' = Failed
       THEN Exit(PanicStatus, "asset_decode")
       ELSE pc' = "match_driver" /\ UNCHANGED exitVars
    /\ UNCHANGED <<inputVars, logVars, buildVars, beat_normal, invoked,
                   ctrlVars, updVars>>

\* an unknown name falling back to jack
MatchArm_FallbackJack(driver) ==
    IF driver = "coreaudio" THEN "coreaudio" ELSE "jack"

\* the two backend arms taken the wrong way round
MatchArm_Swapped(driver) ==
    IF driver = "jack" THEN "coreaudio"
    ELSE IF driver = "coreaudio" THEN "jack"
    ELSE "other"

\* the arm of `match cli.driver.as_str()` a driver string takes
MatchArm(driver) ==
    IF driver = "jack" THEN "jack"
    ELSE IF driver = "coreaudio" THEN "coreaudio"
    ELSE "other"

\* the platform check left out
CoreaudioSupported_Always(os) == TRUE

\* cfg!(target_os = "macos")
CoreaudioSupported(os) == os = "macos"

\* a call that passes a literal false for the restore flag
CallArgs_RestoreIgnored(backend) ==
    [backend |-> backend, gui |-> gui, gui_sender |-> gui_sender,
     beat_normal |-> beat_normal, beat_emphasis |-> beat_emphasis,
     restore |-> FALSE]

\* the arguments main() moves into a backend entry point
CallArgs(backend) ==
    [backend |-> backend, gui |-> gui, gui_sender |-> gui_sender,
     beat_normal |-> beat_normal, beat_emphasis |-> beat_emphasis,
     restore |-> cli.restore]

\* a call that hands the backend gui_sender.clone() and keeps the sender in
\* main()
CallBackend_ClonesSender(backend) ==
    /\ invoked' = Append(invoked, CallArgs(backend))
    /\ owner' = [owner EXCEPT
                   !.gui_to_engine_receiver = "backend",
                   !.gui = IF owner.gui = "main" THEN "backend" ELSE owner.gui]
    /\ pc' = "in_backend"
    /\ UNCHANGED <<stderr, exitVars>>

\* the call of jack_main / coreaudio_main: the Gui, the GuiSender and the
\* command receiver move into the backend
CallBackend(backend) ==
    /\ invoked' = Append(invoked, CallArgs(backend))
    /\ owner' = [owner EXCEPT
                   !.gui_to_engine_receiver = "backend",
                   !.sender = "backend",
                   !.gui = IF owner.gui = "main" THEN "backend" ELSE owner.gui]
    /\ pc' = "in_backend"
    /\ UNCHANGED <<stderr, exitVars>>

\* lines 102-134
Dispatch ==
    /\ pc = "match_driver"
    /\ LET arm == MatchArm(cli.driver) IN
        IF arm = "jack" THEN CallBackend("jack")
        ELSE IF arm = "coreaudio" THEN
            IF CoreaudioSupported(target_os) THEN CallBackend("coreaudio")
            ELSE /\ stderr' = Append(stderr,
                        <<"Coreaudio is not supported on this system; choose another driver">>)
                 /\ Exit(ExitFailure, "unsupported_driver")
                 /\ UNCHANGED <<invoked, owner>>
        ELSE /\ stderr' = Append(stderr, <<"Unknown driver", cli.driver>>)
             /\ Exit(ExitFailure, "unknown_driver")
             /\ UNCHANGED <<invoked, owner>>
    /\ UNCHANGED <<inputVars, logger, logSinks, logged, nControlChannels,
                   nUpdateChannels, nGuis, gui, gui_sender, beatVars, ctrlVars,
                   updVars>>

-----------------------------------------------------------------------------
(* After the dispatch: the Gui (non-realtime) and the backend's realtime   *)
(* side, acting on the channels main() built.  loopers_gui, loopers_jack   *)
(* and looper_coreaudio are modelled from the specification: the command   *)
(* channel is a bounded FIFO whose send blocks or fails when it is full,   *)
(* the backend polls it with try_recv, a connected GuiSender queues the    *)
(* update and a disconnected one discards it.                              *)

Full(q) == Len(q) >= ControlCapacity

\* the queue after a command is sent on it
Enqueue(q, cmd) == Append(q, cmd)

\* a receiver that takes the newest command
Dequeue_Last(q) == [cmd |-> q[Len(q)], rest |-> SubSeq(q, 1, Len(q) - 1)]

\* the command try_recv takes from a non-empty queue, and what is left
Dequeue(q) == [cmd |-> Head(q), rest |-> Tail(q)]

GuiRunning ==
    /\ pc = "in_backend"
    /\ owner.gui_to_engine_sender = "gui"

\* a send on a channel with room completes at once
GuiSend ==
    /\ GuiRunning
    /\ pending = 0
    /\ attempts < budget.sends
    /\ ~Full(ctrlQueue)
    /\ attempts' = attempts + 1
    /\ ctrlQueue' = Enqueue(ctrlQueue, attempts')
    /\ sentLog' = Append(sentLog, attempts')
    /\ UNCHANGED <<inputVars, pc, logVars, buildVars, beatVars, invoked,
                   exitVars, pending, sendFailures, received, pollResult,
                   updVars>>

\* send() on the full channel: the Gui's thread blocks holding the command
GuiSendBlocks ==
    /\ GuiRunning
    /\ pending = 0
    /\ attempts < budget.sends
    /\ Full(ctrlQueue)
    /\ attempts' = attempts + 1
    /\ pending' = attempts'
    /\ UNCHANGED <<inputVars, pc, logVars, buildVars, beatVars, invoked,
                   exitVars, ctrlQueue, sentLog, sendFailures, received,
                   pollResult, updVars>>

\* the blocked send() completes once the channel has room
GuiSendCompletes ==
    /\ GuiRunning
    /\ pending # 0
    /\ ~Full(ctrlQueue)
    /\ ctrlQueue' = Enqueue(ctrlQueue, pending)
    /\ sentLog' = Append(sentLog, pending)
    /\ pending' = 0
    /\ UNCHANGED <<inputVars, pc, logVars, buildVars, beatVars, invoked,
                   exitVars, attempts, sendFailures, received, pollResult,
                   updVars>>

\* try_send() on the full channel: Err(Full), the caller keeps the command
GuiTrySendFull ==
    /\ GuiRunning
    /\ pending = 0
    /\ attempts < budget.sends
    /\ Full(ctrlQueue)
    /\ attempts' = attempts + 1
    /\ sendFailures' = sendFailures + 1
    /\ UNCHANGED <<inputVars, pc, logVars, buildVars, beatVars, invoked,
                   exitVars, ctrlQueue, pending, sentLog, received, pollResult,
                   updVars>>

\* the Gui takes one update from the connected GuiSender's queue
GuiRecvUpdate ==
    /\ pc = "in_backend"
    /\ owner.receiver = "gui"
    /\ updQueue # <<>>
    /\ updQueue' = Tail(updQueue)
    /\ updSeen' = updSeen + 1
    /\ UNCHANGED <<inputVars, pc, logVars, buildVars, beatVars, invoked,
                   exitVars, ctrlVars, updSent>>

\* a realtime side that waits for a command with recv() instead of polling
BackendPoll_Blocking ==
    /\ pc = "in_backend"
    /\ owner.gui_to_engine_receiver = "backend"
    /\ ctrlQueue # <<>>
    /\ received' = Append(received, Dequeue(ctrlQueue).cmd)
    /\ ctrlQueue' = Dequeue(ctrlQueue).rest
    /\ pollResult' = "command"
    /\ UNCHANGED <<inputVars, pc, logVars, buildVars, beatVars, invoked,
                   exitVars, attempts, pending, sentLog, sendFailures, updVars>>

\* the realtime side's try_recv on the command receiver: one step, whatever
\* the channel holds
BackendPoll ==
    /\ pc = "in_backend"
    /\ owner.gui_to_engine_receiver = "backend"
    /\ IF ctrlQueue # <<>>
       THEN /\ received' = Append(received, Dequeue(ctrlQueue).cmd)
            /\ ctrlQueue' = Dequeue(ctrlQueue).rest
            /\ pollResult' = "command"
       ELSE /\ pollResult' = IF owner.gui_to_engine_sender = None
                             THEN "disconnected" ELSE "empty"
            /\ UNCHANGED <<received, ctrlQueue>>
    /\ UNCHANGED <<inputVars, pc, logVars, buildVars, beatVars, invoked,
                   exitVars, attempts, pending, sentLog, sendFailures, updVars>>

\* what a send on a GuiSender of the given variant leaves in its queue
SendUpdate(variant, q, update) ==
    IF variant = "connected" THEN Append(q, update) ELSE q

\* the realtime side sends one update on the GuiSender it was handed
BackendSendUpdate ==
    /\ pc = "in_backend"
    /\ owner.sender = "backend"
    /\ updSent < budget.updates
    /\ updSent' = updSent + 1
    /\ updQueue' = SendUpdate(invoked[1].gui_sender, updQueue, updSent')
    /\ UNCHANGED <<inputVars, pc, logVars, buildVars, beatVars, invoked,
                   exitVars, ctrlVars, updSeen>>

\* the backend entry point returns (jack_main returns, coreaudio_main
\* returns Ok) and main() ends
BackendReturn ==
    /\ pc = "in_backend"
    /\ Exit(ExitSuccess, "backend_returned")
    /\ UNCHANGED <<inputVars, logVars, buildVars, beatVars, invoked, ctrlVars,
                   updVars>>

\* a startup error that is dropped (let _ = ...) instead of unwrapped: main
\* returns normally
BackendFail_Ignored ==
    /\ pc = "in_backend"
    /\ attempts = 0 /\ updSent = 0 /\ pollResult = None
    /\ Exit(ExitSuccess, "backend_failed")
    /\ UNCHANGED <<inputVars, logVars, buildVars, beatVars, invoked, ctrlVars,
                   updVars>>

\* the backend fails to start: coreaudio_main returns Err and line 124's
\* expect panics; jack_main panics
BackendFail ==
    /\ pc = "in_backend"
    /\ attempts = 0 /\ updSent = 0 /\ pollResult = None
    /\ Exit(PanicStatus, "backend_failed")
    /\ UNCHANGED <<inputVars, logVars, buildVars, beatVars, invoked, ctrlVars,
                   updVars>>

Next ==
    \/ SetupLogger
    \/ RestoreInfo
    \/ ConstructControlChannel
    \/ ConstructUpdateChannel
    \/ ConstructGui
    \/ DecodeNormal
    \/ DecodeEmphasis
    \/ Dispatch
    \/ GuiSend
    \/ GuiSendBlocks
    \/ GuiSendCompletes
    \/ GuiTrySendFull
    \/ GuiRecvUpdate
    \/ BackendPoll
    \/ BackendSendUpdate
    \/ BackendReturn
    \/ BackendFail

Spec == Init /\ [][Next]_vars

-----------------------------------------------------------------------------
(* Properties *)

\* the driver names main() has a backend arm for (lines 103 and 113)
KnownDrivers == {"jack", "coreaudio"}

Decoded(beat) == beat # Undecoded /\ beat # Failed

DecodeFailed == beat_normal = Failed \/ beat_emphasis = Failed

Rejected == exitCause \in {"unknown_driver", "unsupported_driver"}

\* the number of Gui objects a run has once lines 85-93 are done
GuisFor(no_gui) == IF no_gui THEN 0 ELSE 1

\* C1, as stated: when decoding a bundled metronome sound fails, the process
\* aborts with no ControlChannel, no UpdateChannel and no Control Surface
\* constructed and no backend entry point called.
C1_AbortBeforeChannels ==
    exitCause = "asset_decode" =>
        /\ nControlChannels = 0
        /\ nUpdateChannels = 0
        /\ nGuis = 0
        /\ invoked = <<>>

\* C1, amended: when decoding a bundled metronome sound fails, the process
\* aborts at once with a non-zero status and no backend entry point has been
\* called; the ControlChannel, the UpdateChannel and (unless --no-gui) the
\* Control Surface have been constructed by then.
C1_DecodeFailureAborts ==
    (DecodeFailed \/ exitCause = "asset_decode") =>
        /\ DecodeFailed
        /\ pc = "exited"
        /\ exitCause = "asset_decode"
        /\ exitStatus # 0
        /\ invoked = <<>>
        /\ nControlChannels = 1
        /\ nUpdateChannels = 1
        /\ nGuis = GuisFor(cli.no_gui)

C1_Witness ==
    /\ exitCause = "asset_decode"
    /\ Decoded(beat_normal)
    /\ beat_emphasis = Failed
    /\ nGuis = 1

\* C2: for every driver string that is not a known driver name, no backend
\* entry point is ever invoked, the run goes on until the process has exited,
\* and the exit status is not zero.
C2_UnknownDriverRejected ==
    cli.driver \notin KnownDrivers =>
        /\ invoked = <<>>
        /\ pc # "in_backend"
        /\ (pc = "exited" => exitStatus # NoStatus /\ exitStatus # 0)
        /\ (pc # "exited" => ENABLED Next)

C2_Witness ==
    /\ cli.driver = "nonexistent"
    /\ pc = "exited"
    /\ exitCause = "unknown_driver"
    /\ exitStatus = 1
    /\ stderr[Len(stderr)] = <<"Unknown driver", "nonexistent">>

\* C3, as stated: in every run that ends with the unknown-driver or the
\* unsupported-driver exit, no ControlChannel, UpdateChannel, Control Surface
\* or MetronomeBuffer was constructed before the rejection.
C3_RejectedBeforeConstruction ==
    Rejected =>
        /\ nControlChannels = 0
        /\ nUpdateChannels = 0
        /\ nGuis = 0
        /\ beat_normal = Undecoded
        /\ beat_emphasis = Undecoded

\* C3, amended: in every run that ends with the unknown-driver or the
\* unsupported-driver exit, the rejection comes before any backend entry
\* point is called and after the resources are constructed: the
\* ControlChannel, the UpdateChannel, both MetronomeBuffers and (unless
\* --no-gui) the Control Surface exist when the driver is rejected.
C3_RejectedAfterConstruction ==
    Rejected =>
        /\ pc = "exited"
        /\ exitStatus # 0
        /\ invoked = <<>>
        /\ nControlChannels = 1
        /\ nUpdateChannels = 1
        /\ nGuis = GuisFor(cli.no_gui)
        /\ Decoded(beat_normal)
        /\ Decoded(beat_emphasis)

C3_Witness ==
    /\ exitCause = "unsupported_driver"
    /\ nGuis = 1
    /\ gui_sender = "connected"
    /\ beat_normal = <<1, 2>>
    /\ beat_emphasis = <<3, 4, 5>>

\* C4: when the driver string is "coreaudio" on a platform other than macos,
\* no backend entry point (coreaudio or other) is ever called, the run goes
\* on until the process has exited, and the exit status is not zero.
C4_UnsupportedCoreaudioRejected ==
    (cli.driver = "coreaudio" /\ target_os # "macos") =>
        /\ invoked = <<>>
        /\ pc # "in_backend"
        /\ (pc = "exited" => exitStatus # NoStatus /\ exitStatus # 0)
        /\ (pc # "exited" => ENABLED Next)

C4_Witness ==
    /\ cli.driver = "coreaudio"
    /\ target_os = "linux"
    /\ pc = "exited"
    /\ exitCause = "unsupported_driver"
    /\ exitStatus = 1

\* the driver string names a backend this platform has
Resolves(driver, os) ==
    \/ driver = "jack"
    \/ driver = "coreaudio" /\ os = "macos"

\* main() has reached the end of the match at lines 102-134
PastMatch == pc = "in_backend" \/ (pc = "exited" /\ exitCause # "asset_decode")

\* C5: at most one backend entry point is invoked and at most once; when the
\* driver string resolves to a known backend of the platform, the dispatch
\* invokes exactly the backend the string names; after a dispatch main()
\* never resolves or dispatches again (the invocation stays the only one and
\* main() is in the backend or has exited).
C5_SingleDispatch ==
    /\ [](/\ Len(invoked) <= 1
          /\ (PastMatch /\ Resolves(cli.driver, target_os)) =>
                (Len(invoked) = 1 /\ invoked[1].backend = cli.driver)
          /\ invoked # <<>> =>
                (/\ Resolves(cli.driver, target_os)
                 /\ invoked[1].backend = cli.driver
                 /\ pc \in {"in_backend", "exited"}))
    /\ [][invoked # <<>> =>
            /\ invoked' = invoked
            /\ pc' \in {"in_backend", "exited"}]_vars

C5_Witness ==
    /\ pc = "exited"
    /\ exitCause = "backend_returned"
    /\ Len(invoked) = 1
    /\ invoked[1].backend = "coreaudio"
    /\ cli.driver = "coreaudio"

\* C6: a run constructs exactly one ControlChannel and exactly one
\* UpdateChannel (never more than one of each, and one of each once the
\* process has exited), and both exist before any Control Surface is created
\* and before any backend entry point is called.
C6_ChannelsOnceAndFirst ==
    /\ nControlChannels <= 1
    /\ nUpdateChannels <= 1
    /\ (nGuis > 0 \/ invoked # <<>> \/ pc = "exited") =>
            (nControlChannels = 1 /\ nUpdateChannels = 1)
    /\ nUpdateChannels = 1 => nControlChannels = 1

C6_Witness ==
    /\ nGuis = 1
    /\ invoked # <<>>
    /\ nControlChannels = 1
    /\ nUpdateChannels = 1

\* C7: from the binding of (gui, gui_sender) at lines 85-93 on, the GuiSender
\* is disconnected exactly when the run is headless (--no-gui), a Gui exists
\* exactly when it is connected, its variant never changes, and the
\* GuiSender and the Gui handed to the backend are the ones bound there.
C7_VariantFixed ==
    /\ [](gui_sender # "unbound" =>
            /\ gui_sender \in {"connected", "disconnected"}
            /\ (gui_sender = "disconnected") <=> cli.no_gui
            /\ (gui = "Some") <=> (gui_sender = "connected")
            /\ (nGuis = 1) <=> (gui_sender = "connected"))
    /\ [](invoked # <<>> =>
            /\ gui_sender # "unbound"
            /\ invoked[1].gui_sender = gui_sender
            /\ invoked[1].gui = gui)
    /\ [][gui_sender # "unbound" => gui_sender' = gui_sender /\ gui' = gui]_vars

C7_Witness ==
    /\ cli.no_gui
    /\ invoked # <<>>
    /\ invoked[1].gui_sender = "disconnected"
    /\ invoked[1].gui = None
    /\ updSent > 0

IsPrefix(p, q) == Len(p) <= Len(q) /\ SubSeq(q, 1, Len(p)) = p

\* commands are numbered in the order their sends were started
InSendOrder(q) == \A i \in 1..(Len(q) - 1) : q[i] < q[i + 1]

\* C8: on the command channel the commands received are always a prefix of
\* the commands sent, in send order; every command sent is either received
\* or still queued, exactly once (none lost, none duplicated, none
\* reordered), whether at most 100 (the capacity) or more were sent.
C8_FifoExactlyOnce ==
    /\ IsPrefix(received, sentLog)
    /\ sentLog = received \o ctrlQueue
    /\ InSendOrder(sentLog)
    /\ InSendOrder(received)

C8_Witness ==
    /\ attempts = 100
    /\ Len(sentLog) = 100
    /\ received = sentLog
    /\ ctrlQueue = <<>>

\* C9: the command channel never holds more than 100 commands; a send on
\* the full channel is never silently dropped: it is blocked (which happens
\* only after 100 sends completed, and then its command is not in the
\* channel), or has failed explicitly, or has completed; the number of completed sends never exceeds the number of
\* receives by more than 100, so the 101st send does not complete before a
\* receive.
C9_Backpressure ==
    /\ Len(ctrlQueue) <= 100
    /\ Len(sentLog) <= Len(received) + 100
    /\ attempts = Len(sentLog) + sendFailures + (IF pending # 0 THEN 1 ELSE 0)
    /\ pending # 0 =>
            /\ Len(sentLog) >= 100
            /\ \A i \in 1..Len(sentLog) : sentLog[i] # pending
    /\ Len(sentLog) > 100 => Len(received) >= 1

C9_Witness ==
    /\ Len(ctrlQueue) = 100
    /\ pending = 101
    /\ received = <<>>

\* C10: in a headless run no update is ever queued, whatever the number of
\* sends, and a send is never blocked: while the backend runs and has sends
\* left to make, the send step is enabled, and it leaves the queue empty.
C10_HeadlessUpdatesDiscarded ==
    cli.no_gui =>
        /\ updQueue = <<>>
        /\ updSeen = 0
        /\ (pc = "in_backend" /\ updSent < budget.updates) =>
                ENABLED BackendSendUpdate

C10_Witness ==
    /\ cli.no_gui
    /\ pc = "in_backend"
    /\ updSent >= 2
    /\ updQueue = <<>>

\* C11: while the backend runs, its poll of the command channel is enabled
\* in every state and its GuiSender send is enabled whenever it has one to
\* make: neither waits for the Gui, whether the Gui is idle, is blocked on
\* the full command channel, or has left updates undrained; a poll ends
\* with a command, "empty" or "disconnected".
C11_RealtimeNeverBlocked ==
    /\ pc = "in_backend" =>
            /\ ENABLED BackendPoll
            /\ updSent < budget.updates => ENABLED BackendSendUpdate
    /\ pollResult \in {None, "command", "empty", "disconnected"}
    /\ (pollResult = "command") => received # <<>>

C11_Witness ==
    /\ pc = "in_backend"
    /\ pending # 0
    /\ Len(ctrlQueue) = 100
    /\ pollResult = "empty"
    /\ updQueue # <<>>
    /\ updSeen = 0

\* C12: a run in which the selected backend's entry point failed has exited
\* with a non-zero status, after invoking that one backend once; nothing
\* follows the failure (no retry, no other backend).
C12_BackendFailureFatal ==
    exitCause = "backend_failed" =>
        /\ pc = "exited"
        /\ exitStatus # NoStatus
        /\ exitStatus # 0
        /\ Len(invoked) = 1
        /\ invoked[1].backend = cli.driver
        /\ ~ENABLED Next

C12_Witness ==
    /\ exitCause = "backend_failed"
    /\ cli.driver = "coreaudio"
    /\ invoked[1].backend = "coreaudio"
    /\ exitStatus = 101

\* the parties that hold a sending handle of the UpdateChannel
UpdateSenderHolders == {owner.sender, owner.sender_clone} \ {None}

\* the parties that hold the receiving handle of the ControlChannel
ControlReceiverHolders == {owner.gui_to_engine_receiver} \ {None}

\* C13, as stated: after the handoff the backend alone holds a sending
\* handle of the UpdateChannel and the receiving handle of the
\* ControlChannel, with and without a Gui.
C13_BackendExclusive ==
    invoked # <<>> =>
        /\ UpdateSenderHolders = {"backend"}
        /\ ControlReceiverHolders = {"backend"}

\* C13, amended: after the handoff the backend alone holds the receiving
\* handle of the ControlChannel and main() holds no handle of either; in a
\* headless run the backend alone holds a sending handle of the
\* UpdateChannel, in a run with a Gui the Gui holds one more, the clone it
\* was constructed with (the Gui itself having moved into the backend).
C13_BackendOwnsHandles ==
    invoked # <<>> =>
        /\ ControlReceiverHolders = {"backend"}
        /\ owner.sender = "backend"
        /\ UpdateSenderHolders =
                (IF cli.no_gui THEN {"backend"} ELSE {"backend", "gui"})
        /\ owner.gui = (IF cli.no_gui THEN None ELSE "backend")
        /\ owner.receiver = (IF cli.no_gui THEN None ELSE "gui")

C13_Witness ==
    /\ invoked # <<>>
    /\ ~cli.no_gui
    /\ owner.sender = "backend"
    /\ owner.sender_clone = "gui"
    /\ owner.gui = "backend"
    /\ updSent > 0

\* what a run shows once main() is past the match or has exited, as decided
\* by the command line, the platform and the bundled files alone
ExpectedCauses ==
    IF DecodeWav(assets.normal) = Failed \/ DecodeWav(assets.emphasis) = Failed
    THEN {"asset_decode"}
    ELSE IF cli.driver = "jack" \/ (cli.driver = "coreaudio" /\ target_os = "macos")
    THEN {None, "backend_returned", "backend_failed"}
    ELSE IF cli.driver = "coreaudio" THEN {"unsupported_driver"}
    ELSE {"unknown_driver"}

ExpectedStatus(cause) ==
    IF cause = None THEN NoStatus
    ELSE IF cause = "backend_returned" THEN 0
    ELSE IF cause \in {"asset_decode", "backend_failed"} THEN 101
    ELSE 1

\* C14: a failing logger setup does not end the run, and what the run
\* constructs, which backend it invokes (or which rejection it takes) and
\* its exit status are the ones the command line, the platform and the
\* bundled files decide, the same with a failing and with a working logger.
C14_LoggerFailureNonFatal ==
    /\ exitCause # "logger"
    /\ (pc \in {"in_backend", "exited"}) =>
            /\ exitCause \in ExpectedCauses
            /\ exitStatus = ExpectedStatus(exitCause)
            /\ nControlChannels = 1
            /\ nUpdateChannels = 1
            /\ nGuis = GuisFor(cli.no_gui)
            /\ (invoked # <<>>) <=>
                    (exitCause \in {None, "backend_returned", "backend_failed"})
            /\ invoked # <<>> => invoked[1].backend = cli.driver
    /\ (logger \notin {"unset", "Ok"}) =>
            /\ pc # "setup_logger"
            /\ stderr # <<>>
            /\ stderr[1][1] = "Unable to set up logging"

C14_Witness ==
    /\ logger = "Io"
    /\ pc = "exited"
    /\ exitCause = "backend_returned"
    /\ exitStatus = 0
    /\ nGuis = 1

\* the configuration {driver: jack, headless: true, restore: false} with
\* bundled files that decode
JackHeadless ==
    /\ cli.driver = "jack"
    /\ cli.no_gui
    /\ ~cli.restore
    /\ DecodeWav(assets.normal) # Failed
    /\ DecodeWav(assets.emphasis) # Failed

\* C15, as stated: in the configuration {jack, headless, no restore} the
\* asset load comes first, then the ControlChannel and the disconnected
\* UpdateChannel (no channel exists before both buffers are decoded), then
\* one dispatch into jack with both buffers and restore = false; no Gui
\* exists at any point; the restore flag handed over is the configured one.
C15_AssetsThenChannels ==
    /\ JackHeadless =>
            /\ (nControlChannels > 0 \/ nUpdateChannels > 0) =>
                    (Decoded(beat_normal) /\ Decoded(beat_emphasis))
            /\ invoked # <<>> =>
                    (nControlChannels = 1 /\ nUpdateChannels = 1)
            /\ nGuis = 0
    /\ invoked # <<>> => invoked[1].restore = cli.restore

\* C15, amended: in the configuration {jack, headless, no restore} the
\* ControlChannel and the disconnected UpdateChannel are constructed first,
\* then both assets are decoded, then jack is dispatched once, with both
\* decoded buffers, restore = false, the disconnected GuiSender and no Gui;
\* no Gui exists at any point. In every configuration the restore flag
\* handed to the backend is the configured --restore value.
C15_JackHeadlessScenario ==
    /\ JackHeadless =>
            /\ (beat_normal # Undecoded \/ beat_emphasis # Undecoded) =>
                    /\ nControlChannels = 1
                    /\ nUpdateChannels = 1
                    /\ gui_sender = "disconnected"
            /\ beat_emphasis # Undecoded => Decoded(beat_normal)
            /\ PastMatch =>
                    /\ Len(invoked) = 1
                    /\ invoked[1].backend = "jack"
                    /\ invoked[1].beat_normal = DecodeWav(assets.normal)
                    /\ invoked[1].beat_emphasis = DecodeWav(assets.emphasis)
                    /\ invoked[1].restore = FALSE
                    /\ invoked[1].gui = None
                    /\ invoked[1].gui_sender = "disconnected"
            /\ invoked = <<>> => pc \notin {"in_backend", "exited"}
            /\ nGuis = 0
            /\ gui # "Some"
            /\ owner.gui = None
    /\ invoked # <<>> => invoked[1].restore = cli.restore

C15_Witness ==
    /\ JackHeadless
    /\ pc = "in_backend"
    /\ invoked[1].backend = "jack"
    /\ invoked[1].beat_normal = <<1, 2>>
    /\ invoked[1].beat_emphasis = <<3, 4, 5>>
    /\ invoked[1].restore = FALSE
    /\ nGuis = 0

\* C16: a backend has been dispatched only with both metronome buffers
\* decoded, and it is handed these buffers; a run in which a decode failed
\* has aborted without a dispatch.
C16_DispatchOnlyWithBuffers ==
    /\ invoked # <<>> =>
            /\ Decoded(beat_normal)
            /\ Decoded(beat_emphasis)
            /\ beat_normal = DecodeWav(assets.normal)
            /\ beat_emphasis = DecodeWav(assets.emphasis)
            /\ invoked[1].beat_normal = beat_normal
            /\ invoked[1].beat_emphasis = beat_emphasis
    /\ pc \in {"match_driver", "in_backend"} =>
            (Decoded(beat_normal) /\ Decoded(beat_emphasis))
    /\ DecodeFailed => (invoked = <<>> /\ exitStatus = 101)

C16_Witness ==
    /\ invoked # <<>>
    /\ cli.restore
    /\ invoked[1].beat_normal = <<1, 2>>
    /\ invoked[1].beat_emphasis = <<3, 4, 5>>
    /\ received # <<>>

\* C17: the process has exit status 0 exactly when a backend entry point was
\* invoked and returned; a run that ended by the unknown-driver rejection,
\* the unsupported-platform rejection or a backend failure has a non-zero
\* status.
C17_ExitStatus ==
    /\ pc = "exited" =>
            /\ exitStatus # NoStatus
            /\ (exitStatus = 0) <=> (exitCause = "backend_returned")
            /\ exitCause = "backend_returned" => Len(invoked) = 1
            /\ exitCause \in {"unknown_driver", "unsupported_driver",
                              "backend_failed"} => exitStatus # 0
    /\ pc # "exited" => (exitStatus = NoStatus /\ exitCause = None)

C17_Witness ==
    /\ pc = "exited"
    /\ exitStatus = 0
    /\ exitCause = "backend_returned"
    /\ invoked[1].backend = "jack"
    /\ updSent > 0

\* C18: in a headless run the command sender is given to no producer and
\* stays with main() while the backend runs: no command is ever sent or
\* received, and every poll of the backend ends "empty", never
\* "disconnected".
C18_HeadlessChannelIdle ==
    (cli.no_gui /\ invoked # <<>>) =>
        /\ owner.gui_to_engine_sender = "main"
        /\ attempts = 0
        /\ ctrlQueue = <<>>
        /\ received = <<>>
        /\ pollResult \in {None, "empty"}

C18_Witness ==
    /\ cli.no_gui
    /\ pc = "in_backend"
    /\ pollResult = "empty"
    /\ owner.gui_to_engine_sender = "main"

====
